---- MODULE Spec2Model ----
(***************************************************************************)
(* Curriculum progress and revision scheduling of the exam tracker.       *)
(*                                                                         *)
(* The model follows src/src/App.tsx (the current App component, lines    *)
(* 55-1167): the exam log `exams`, the chapter progress list              *)
(* `chapterProgress`, the undo buffer, the debounced "Automated Revision   *)
(* Scheduling" effect and the handlers that mutate them, together with     *)
(* the buttons of CurriculumTracker (src/src/components/GSTCountdown.tsx)  *)
(* that call handleToggleTask.  The exam form (ExamForm, the first         *)
(* component of src/unnamed/part_003) computes the marks and the grade of  *)
(* an exam and hands it to handleSaveExam; the readiness statistics are    *)
(* those of GSTCountdown (src/src/components/GSTCountdown.tsx, 42-92), the *)
(* status of a chapter is getStatus of CurriculumTracker (same file,       *)
(* 367-435) and the due revisions are those of RevisionReminders           *)
(* (src/src/components/RevisionReminders.tsx, 14-49).                      *)
(*                                                                         *)
(* Time is counted in whole days; an ISO timestamp is the day number it    *)
(* falls on, and an absent (undefined) timestamp is UNDEFINED.             *)
(***************************************************************************)
EXTENDS Integers, Sequences, FiniteSets, TLC

(***************************************************************************)
(* Bounds of the model.                                                    *)
(***************************************************************************)
\* the clock runs from day 0 to day MaxNow
MaxNow == 1
\* number of exam ids crypto.randomUUID() hands out in one run
MaxExams == 1
\* the same number in the specification of the exam log alone
MaxLogExams == 3
\* the clock of the specification that follows a chapter over several days
MaxDay == 8

(***************************************************************************)
(* Reference data.                                                         *)
(***************************************************************************)
\* an optional field that is absent
UNDEFINED == -1

\* ExamStatus enum
ExamStatus == {"UPCOMING", "COMPLETED", "CANCELLED"}

\* the five tasks handleToggleTask accepts
Tasks == {"class", "uni", "gst", "rev1", "rev2"}

\* NCTB_CURRICULUM, cut down to two chapters of one subject
NCTB_CURRICULUM == [Physics |-> <<"Vector", "Waves">>]

SUBJECTS == DOMAIN NCTB_CURRICULUM

\* what the exam form hands to handleSaveExam, reduced to the fields the
\* progress logic reads: subject, status and the names of the topics
ExamInputs ==
    { [subject |-> "Physics", status |-> "COMPLETED", topics |-> {"Vector"}],
      [subject |-> "Physics", status |-> "UPCOMING",  topics |-> {"Vector"}] }

\* the calls of handleToggleTask that are tried: every task of one chapter,
\* and the class task of a second one so that the list holds two records
ToggleInputs ==
    {<<"Physics", "Vector", task>> : task \in Tasks} \cup {<<"Physics", "Waves", "class">>}

\* date-fns addDays on day numbers
addDays(t, n) == t + n

VARIABLES
    exams,            \* useState<Exam[]>: the exam log, in insertion order
    chapterProgress,  \* useState<ChapterProgress[]>
    undoState,        \* useState<{exams}|null>: the exam log before the last delete
    timer,            \* the setTimeout of the scheduling effect and the exams it closed over
    nextId,           \* the ids crypto.randomUUID() has handed out so far, plus one
    now,              \* the clock read by new Date()
    formError,        \* what the exam form shows after the last submit
    form              \* the fields of the exam form as the user fills them in

vars == <<exams, chapterProgress, undoState, timer, nextId, now, formError, form>>

\* useState<string | null>(null) of ExamForm: no error is shown
NoError == "null"

NoUndo == [set |-> FALSE, exams |-> <<>>]
TimerIdle == [armed |-> FALSE, exams |-> <<>>]

\* a timeout whose callback closed over the exams of the first render
ArmTimer_StaleClosure(ex) == [armed |-> TRUE, exams |-> <<>>]

\* the effect of lines 221-267 runs: the cleanup clears the old timeout and a
\* new one is set whose callback closes over the exams of this render
ArmTimer(ex) == [armed |-> TRUE, exams |-> ex]

(***************************************************************************)
(* Derived completion, as the scheduling effect computes it.               *)
(***************************************************************************)
hasTakenExam(ex, subject, chapterName) ==
    \E i \in DOMAIN ex :
        /\ ex[i].subject = subject
        /\ ex[i].status = "COMPLETED"
        /\ chapterName \in ex[i].topics

isFullyDone(p) == p.isClassDone /\ p.isUniQBDone /\ p.isGSTQBDone

isCompleted(p, ex) == isFullyDone(p) /\ hasTakenExam(ex, p.subject, p.chapterName)

(***************************************************************************)
(* The scheduler pass: the updater handed to setChapterProgress.           *)
(***************************************************************************)
\* which branch of "Schedule 1st revision if completed" is taken
FirstBranch(p, ex) ==
    IF isCompleted(p, ex) /\ p.completedAt = UNDEFINED THEN "set"
    ELSE IF ~isCompleted(p, ex) /\ p.completedAt # UNDEFINED THEN "clear"
    ELSE "none"

\* ScheduleFirst with a clear branch that also drops the first revision mark
ScheduleFirst_ClearsRevision(p, ex, t) ==
    CASE FirstBranch(p, ex) = "set" ->
            [p EXCEPT !.completedAt = t, !.scheduledFirstRevisionAt = addDays(t, 3)]
      [] FirstBranch(p, ex) = "clear" ->
            [p EXCEPT !.completedAt = UNDEFINED,
                      !.firstRevisionAt = UNDEFINED,
                      !.scheduledFirstRevisionAt = UNDEFINED,
                      !.scheduledSecondRevisionAt = UNDEFINED]
      [] OTHER -> p

\* ScheduleFirst with a clear branch that leaves scheduledFirstRevisionAt
ScheduleFirst_KeepsScheduled(p, ex, t) ==
    CASE FirstBranch(p, ex) = "set" ->
            [p EXCEPT !.completedAt = t, !.scheduledFirstRevisionAt = addDays(t, 3)]
      [] FirstBranch(p, ex) = "clear" ->
            [p EXCEPT !.completedAt = UNDEFINED,
                      !.scheduledSecondRevisionAt = UNDEFINED]
      [] OTHER -> p

\* "Schedule 1st revision if completed": the record after the first if/else
ScheduleFirst(p, ex, t) ==
    CASE FirstBranch(p, ex) = "set" ->
            [p EXCEPT !.completedAt = t, !.scheduledFirstRevisionAt = addDays(t, 3)]
      [] FirstBranch(p, ex) = "clear" ->
            [p EXCEPT !.completedAt = UNDEFINED,
                      !.scheduledFirstRevisionAt = UNDEFINED,
                      !.scheduledSecondRevisionAt = UNDEFINED]
      [] OTHER -> p

\* which branch of "Schedule 2nd revision if 1st is done" is taken
SecondBranch(u) ==
    IF u.firstRevisionAt # UNDEFINED /\ u.scheduledSecondRevisionAt = UNDEFINED THEN "set"
    ELSE IF u.firstRevisionAt = UNDEFINED /\ u.scheduledSecondRevisionAt # UNDEFINED THEN "clear"
    ELSE "none"

\* "Schedule 2nd revision if 1st is done": the record after the second if/else
ScheduleSecond(u) ==
    CASE SecondBranch(u) = "set" ->
            [u EXCEPT !.scheduledSecondRevisionAt = addDays(u.firstRevisionAt, 7)]
      [] SecondBranch(u) = "clear" ->
            [u EXCEPT !.scheduledSecondRevisionAt = UNDEFINED]
      [] OTHER -> u

\* PassRecord whose second if/else tests the fields of p, not of updated
PassRecord_StaleSecond(p, ex, t) ==
    LET u1 == ScheduleFirst(p, ex, t)
    IN  [updated |->
            CASE SecondBranch(p) = "set" ->
                    [u1 EXCEPT !.scheduledSecondRevisionAt = addDays(p.firstRevisionAt, 7)]
              [] SecondBranch(p) = "clear" ->
                    [u1 EXCEPT !.scheduledSecondRevisionAt = UNDEFINED]
              [] OTHER -> u1,
         localChanged |-> FirstBranch(p, ex) # "none" \/ SecondBranch(p) # "none"]

\* the body of prev.map(p => ...): the updated record, and localChanged, which
\* is set in every branch that is taken
PassRecord(p, ex, t) ==
    LET u1 == ScheduleFirst(p, ex, t)
    IN  [updated |-> ScheduleSecond(u1),
         localChanged |-> FirstBranch(p, ex) # "none" \/ SecondBranch(u1) # "none"]

\* the whole updater: `changed ? next : prev`
RevisionPass(prev, ex, t) ==
    LET next == [i \in DOMAIN prev |-> PassRecord(prev[i], ex, t).updated]
        changed == \E i \in DOMAIN prev : PassRecord(prev[i], ex, t).localChanged
    IN  [result |-> IF changed THEN next ELSE prev, changed |-> changed]

(***************************************************************************)
(* handleToggleTask.                                                       *)
(***************************************************************************)
Matches(p, subject, chapterName) == p.subject = subject /\ p.chapterName = chapterName

HasRecord(prev, subject, chapterName) ==
    \E i \in DOMAIN prev : Matches(prev[i], subject, chapterName)

\* prev.find(...): the first matching record
FindRecord(prev, subject, chapterName) ==
    prev[CHOOSE i \in DOMAIN prev :
            /\ Matches(prev[i], subject, chapterName)
            /\ \A j \in DOMAIN prev : Matches(prev[j], subject, chapterName) => i <= j]

\* the record a component shows when none is stored (getChapterProgress)
DefaultRecord(subject, chapterName) ==
    [subject |-> subject, chapterName |-> chapterName,
     isClassDone |-> FALSE, isUniQBDone |-> FALSE, isGSTQBDone |-> FALSE,
     completedAt |-> UNDEFINED, firstRevisionAt |-> UNDEFINED,
     secondRevisionAt |-> UNDEFINED, scheduledFirstRevisionAt |-> UNDEFINED,
     scheduledSecondRevisionAt |-> UNDEFINED]

\* an `if (existing)` branch that marks a core task done instead of flipping it
ToggleExisting_MarksDone(existing, task, t) ==
    [existing EXCEPT
        !.isClassDone = IF task = "class" THEN TRUE ELSE @,
        !.isUniQBDone = IF task = "uni" THEN TRUE ELSE @,
        !.isGSTQBDone = IF task = "gst" THEN TRUE ELSE @,
        !.firstRevisionAt =
            IF task = "rev1"
            THEN (IF existing.firstRevisionAt # UNDEFINED THEN UNDEFINED ELSE t)
            ELSE @,
        !.secondRevisionAt =
            IF task = "rev2"
            THEN (IF existing.secondRevisionAt # UNDEFINED THEN UNDEFINED ELSE t)
            ELSE @]

\* the `if (existing)` branch
ToggleExisting(existing, task, t) ==
    [existing EXCEPT
        !.isClassDone = IF task = "class" THEN ~existing.isClassDone ELSE @,
        !.isUniQBDone = IF task = "uni" THEN ~existing.isUniQBDone ELSE @,
        !.isGSTQBDone = IF task = "gst" THEN ~existing.isGSTQBDone ELSE @,
        !.firstRevisionAt =
            IF task = "rev1"
            THEN (IF existing.firstRevisionAt # UNDEFINED THEN UNDEFINED ELSE t)
            ELSE @,
        !.secondRevisionAt =
            IF task = "rev2"
            THEN (IF existing.secondRevisionAt # UNDEFINED THEN UNDEFINED ELSE t)
            ELSE @]

\* the `else` branch: the record of a chapter toggled for the first time
ToggleNew(subject, chapterName, task, t) ==
    [DefaultRecord(subject, chapterName) EXCEPT
        !.isClassDone = (task = "class"),
        !.isUniQBDone = (task = "uni"),
        !.isGSTQBDone = (task = "gst"),
        !.firstRevisionAt = IF task = "rev1" THEN t ELSE UNDEFINED,
        !.secondRevisionAt = IF task = "rev2" THEN t ELSE UNDEFINED]

\* an updater that appends the updated record to prev itself
ToggleTask_KeepsOld(prev, subject, chapterName, task, t) ==
    LET updated == IF HasRecord(prev, subject, chapterName)
                   THEN ToggleExisting(FindRecord(prev, subject, chapterName), task, t)
                   ELSE ToggleNew(subject, chapterName, task, t)
    IN  Append(prev, updated)

\* the updater of handleToggleTask: [...filtered, updated]
ToggleTask(prev, subject, chapterName, task, t) ==
    LET updated == IF HasRecord(prev, subject, chapterName)
                   THEN ToggleExisting(FindRecord(prev, subject, chapterName), task, t)
                   ELSE ToggleNew(subject, chapterName, task, t)
        filtered == SelectSeq(prev, LAMBDA p : ~Matches(p, subject, chapterName))
    IN  Append(filtered, updated)

\* the dependency list [exams, chapterProgress.length] after a change of
\* chapterProgress alone: the effect runs again, and re-arms the timer, only
\* when the length of the list differs from that of the last render
EffectAfter(oldLen, newLen, ex, tm) ==
    IF oldLen # newLen THEN ArmTimer(ex) ELSE tm

handleToggleTask(subject, chapterName, task) ==
    /\ chapterProgress' = ToggleTask(chapterProgress, subject, chapterName, task, now)
    /\ timer' = EffectAfter(Len(chapterProgress), Len(chapterProgress'), exams, timer)
    /\ UNCHANGED <<exams, undoState, nextId, now, formError, form>>

(***************************************************************************)
(* The buttons of CurriculumTracker that call onToggleTask.                *)
(***************************************************************************)
\* getChapterProgress: the stored record, or a default one
getChapterProgress(progress, subject, chapterName) ==
    IF HasRecord(progress, subject, chapterName)
    THEN FindRecord(progress, subject, chapterName)
    ELSE DefaultRecord(subject, chapterName)

\* getChapterExams: the completed exams of the subject that cover the chapter
getChapterExams(ex, subject, chapterName) ==
    {i \in DOMAIN ex : /\ ex[i].subject = subject
                       /\ ex[i].status = "COMPLETED"
                       /\ chapterName \in ex[i].topics}

\* getStatus(...).isCompleted
StatusIsCompleted(progress, ex, subject, chapterName) ==
    /\ isFullyDone(getChapterProgress(progress, subject, chapterName))
    /\ getChapterExams(ex, subject, chapterName) # {}

\* the `disabled` attribute of the button of a task: the Rev 1 button has
\* disabled={!isCompleted}, the Rev 2 button disabled={!p.firstRevisionAt}
ButtonDisabled(progress, ex, subject, chapterName, task) ==
    \/ task = "rev1" /\ ~StatusIsCompleted(progress, ex, subject, chapterName)
    \/ task = "rev2" /\
         getChapterProgress(progress, subject, chapterName).firstRevisionAt = UNDEFINED

\* a click on an enabled button
ClickTask(subject, chapterName, task) ==
    /\ ~ButtonDisabled(chapterProgress, exams, subject, chapterName, task)
    /\ handleToggleTask(subject, chapterName, task)

(***************************************************************************)
(* The exam log handlers.                                                  *)
(***************************************************************************)
ExamIds == 1..MaxExams

HasExam(ex, id) == \E i \in DOMAIN ex : ex[i].id = id

\* an exam record that always gets the same id
MakeExam_ConstantId(examData, id) ==
    [f \in (DOMAIN examData) \cup {"id"} |-> IF f = "id" THEN 1 ELSE examData[f]]

\* { ...examData, id }: the fields of examData, and the id
MakeExam(examData, id) ==
    [f \in (DOMAIN examData) \cup {"id"} |-> IF f = "id" THEN id ELSE examData[f]]

\* handleSaveExam without examData.id: a new exam with a fresh id is appended;
\* setIsFormOpen(false) unmounts the form, whose error state is dropped
handleSaveExamNew(examData) ==
    /\ exams' = Append(exams, MakeExam(examData, nextId))
    /\ nextId' = nextId + 1
    /\ timer' = ArmTimer(exams')
    /\ formError' = NoError
    /\ UNCHANGED <<chapterProgress, undoState, now, form>>

\* handleSaveExam with examData.id: exams.map replaces the records of that id
handleSaveExamEdit(id, examData) ==
    /\ exams' = [i \in DOMAIN exams |->
                    IF exams[i].id = id THEN MakeExam(examData, exams[i].id) ELSE exams[i]]
    /\ timer' = ArmTimer(exams')
    /\ formError' = NoError
    /\ UNCHANGED <<chapterProgress, undoState, nextId, now, form>>

\* a delete after which the scheduling effect does not run again
handleDeleteExam_NoEffect(id) ==
    /\ IF HasExam(exams, id)
       THEN /\ exams' = SelectSeq(exams, LAMBDA e : e.id # id)
            /\ undoState' = [set |-> TRUE, exams |-> exams]
       ELSE UNCHANGED <<exams, undoState>>
    /\ UNCHANGED <<chapterProgress, timer, nextId, now, formError, form>>

\* handleDeleteExam: triggerUndoableAction keeps the old log for undo
handleDeleteExam(id) ==
    /\ IF HasExam(exams, id)
       THEN /\ exams' = SelectSeq(exams, LAMBDA e : e.id # id)
            /\ undoState' = [set |-> TRUE, exams |-> exams]
            /\ timer' = ArmTimer(exams')
       ELSE UNCHANGED <<exams, undoState, timer>>
    /\ UNCHANGED <<chapterProgress, nextId, now, formError, form>>

\* handleUndo
handleUndo ==
    /\ undoState.set
    /\ exams' = undoState.exams
    /\ undoState' = NoUndo
    /\ timer' = ArmTimer(exams')
    /\ UNCHANGED <<chapterProgress, nextId, now, formError, form>>

\* the 5 s timeout that drops the undo buffer
UndoExpire ==
    /\ undoState.set
    /\ undoState' = NoUndo
    /\ UNCHANGED <<exams, chapterProgress, timer, nextId, now, formError, form>>

(***************************************************************************)
(* The timeout of the scheduling effect fires.                             *)
(***************************************************************************)
TimerFire ==
    /\ timer.armed
    /\ chapterProgress' = RevisionPass(chapterProgress, timer.exams, now).result
    /\ timer' = TimerIdle
    /\ UNCHANGED <<exams, undoState, nextId, now, formError, form>>

\* time passes
Tick ==
    /\ now < MaxNow
    /\ now' = now + 1
    /\ UNCHANGED <<exams, chapterProgress, undoState, timer, nextId, formError, form>>

(***************************************************************************)
(* ExamForm (src/unnamed/part_003, lines 1-453).  A form is the state of   *)
(* the component when it is submitted.  correctAnswers, wrongAnswers and   *)
(* totalMarks are whole numbers; obtainedMarks and negativeMarks, which    *)
(* are multiples of 1/4, are counted in quarters of a mark.                *)
(***************************************************************************)
\* the divisor of `wrong / 4`: a mark has four quarters
Quarter == 4

\* a whole number of marks, in quarters
Whole(n) == Quarter * n

\* the '' of a number field that is empty
BLANK == -99

\* Number(''): 0
Number(v) == IF v = BLANK THEN 0 ELSE v

\* ExamType.FULL_MOCK
FULL_MOCK == "Full Mock"

\* isChapterExam
isChapterExam(examType) == examType \in {"V.QB", "GST QB", "PH EXAM"}

\* sections.reduce((acc, s) => acc + s[field], 0)
RECURSIVE SumField(_, _)
SumField(sections, field) ==
    IF sections = <<>> THEN 0
    ELSE Head(sections)[field] + SumField(Tail(sections), field)

\* sections.reduce((acc, s) => acc + (s.correct - (s.wrong / 4)), 0), in quarters
RECURSIVE SumSectionMarks(_)
SumSectionMarks(sections) ==
    IF sections = <<>> THEN 0
    ELSE (Whole(Head(sections).correct) - Head(sections).wrong)
            + SumSectionMarks(Tail(sections))

\* an obtainedMarks memo that deducts nothing for wrong answers
obtainedMarks_NoDeduction(f) ==
    IF f.examType = FULL_MOCK THEN Whole(SumField(f.sections, "correct"))
    ELSE IF f.correctAnswers = BLANK \/ f.wrongAnswers = BLANK THEN 0
    ELSE Whole(Number(f.correctAnswers))

\* the obtainedMarks memo, in quarters
obtainedMarks(f) ==
    IF f.examType = FULL_MOCK THEN SumSectionMarks(f.sections)
    ELSE IF f.correctAnswers = BLANK \/ f.wrongAnswers = BLANK THEN 0
    ELSE Whole(Number(f.correctAnswers)) - Number(f.wrongAnswers)

\* a negativeMarks memo that drops the fraction of wrong / 4
negativeMarks_Floor(f) ==
    IF f.examType = FULL_MOCK THEN Whole(SumField(f.sections, "wrong") \div Quarter)
    ELSE IF f.wrongAnswers = BLANK THEN 0
    ELSE Whole(Number(f.wrongAnswers) \div Quarter)

\* the negativeMarks memo, in quarters: wrong / 4 marks are `wrong` quarters
negativeMarks(f) ==
    IF f.examType = FULL_MOCK THEN SumField(f.sections, "wrong")
    ELSE IF f.wrongAnswers = BLANK THEN 0
    ELSE Number(f.wrongAnswers)

\* a comparison that leaves the threshold itself to the lower grade
PercentageAtLeast_Strict(score, total, threshold) ==
    IF total > 0 THEN 100 * score > threshold * Whole(total)
    ELSE 100 * score < threshold * Whole(total)

\* (score / total) * 100 >= threshold for total # 0, with score in quarters
PercentageAtLeast(score, total, threshold) ==
    IF total > 0 THEN 100 * score >= threshold * Whole(total)
    ELSE 100 * score <= threshold * Whole(total)

\* calculateGrade, with the examType it closes over
calculateGrade(examType, score, total) ==
    IF total = 0 THEN "F"
    ELSE IF examType = FULL_MOCK
    THEN IF PercentageAtLeast(score, total, 80) THEN "Elite"
         ELSE IF PercentageAtLeast(score, total, 70) THEN "Superior"
         ELSE IF PercentageAtLeast(score, total, 60) THEN "Excellent"
         ELSE IF PercentageAtLeast(score, total, 50) THEN "Good"
         ELSE IF PercentageAtLeast(score, total, 40) THEN "Average"
         ELSE "Needs Work"
    ELSE IF PercentageAtLeast(score, total, 90) THEN "A+"
         ELSE IF PercentageAtLeast(score, total, 80) THEN "A"
         ELSE IF PercentageAtLeast(score, total, 70) THEN "A-"
         ELSE IF PercentageAtLeast(score, total, 60) THEN "B"
         ELSE IF PercentageAtLeast(score, total, 50) THEN "C"
         ELSE "F"

\* the constraint validation of the browser, which runs before onSubmit: the
\* subject select is `required`; the three number fields are `required` with
\* min="0"; the fields of a section have min="0" and max={s.total}
NativeValid(f) ==
    /\ f.subject # ""
    /\ IF f.examType = FULL_MOCK
       THEN \A i \in DOMAIN f.sections :
               /\ f.sections[i].correct >= 0 /\ f.sections[i].correct <= f.sections[i].total
               /\ f.sections[i].wrong >= 0 /\ f.sections[i].wrong <= f.sections[i].total
       ELSE \A v \in {f.totalMarks, f.correctAnswers, f.wrongAnswers} : v # BLANK /\ v >= 0

\* what the browser shows for a field that fails constraint validation
ConstraintError == "constraint validation"

\* finalTotalMarks of handleSubmit
finalTotalMarks(f) ==
    IF f.examType = FULL_MOCK THEN SumField(f.sections, "total") ELSE Number(f.totalMarks)

\* the checks of the form of src/src/components/ExamForm.tsx (lines 70-83),
\* which refuses every negative score
SubmitError_RejectsNegative(f) ==
    IF f.subject = "" THEN "Please select a subject."
    ELSE IF isChapterExam(f.examType) /\ f.topics = {}
    THEN "Please select at least one chapter."
    ELSE IF f.examType # FULL_MOCK /\
            (f.totalMarks = BLANK \/ f.correctAnswers = BLANK \/ f.wrongAnswers = BLANK)
    THEN "Please fill in all marking fields."
    ELSE IF obtainedMarks(f) > Whole(finalTotalMarks(f))
    THEN "Obtained marks cannot exceed Total Marks."
    ELSE IF obtainedMarks(f) < 0
    THEN "Obtained marks cannot be negative."
    ELSE NoError

\* the checks of handleSubmit, in their order: the message passed to setError,
\* or NoError when the form reaches onSave
SubmitError(f) ==
    IF f.subject = "" THEN "Please select a subject."
    ELSE IF isChapterExam(f.examType) /\ f.topics = {}
    THEN "Please select at least one chapter."
    ELSE IF f.examType # FULL_MOCK /\
            (f.totalMarks = BLANK \/ f.correctAnswers = BLANK \/ f.wrongAnswers = BLANK)
    THEN "Please fill in all marking fields."
    ELSE IF obtainedMarks(f) > Whole(finalTotalMarks(f))
    THEN "Obtained marks cannot exceed Total Marks."
    ELSE IF obtainedMarks(f) < Whole(-25)
    THEN "Obtained marks are too low."
    ELSE NoError

\* the submit reaches onSave
Accepted(f) == NativeValid(f) /\ SubmitError(f) = NoError

\* the argument of onSave, without the id; `sections: undefined` is <<>>
SavedExam(f) ==
    [subject |-> f.subject,
     examType |-> f.examType,
     status |-> f.status,
     topics |-> IF isChapterExam(f.examType) THEN f.topics ELSE {f.subject},
     totalMarks |-> finalTotalMarks(f),
     correctAnswers |-> IF f.examType = FULL_MOCK THEN SumField(f.sections, "correct")
                        ELSE Number(f.correctAnswers),
     wrongAnswers |-> IF f.examType = FULL_MOCK THEN SumField(f.sections, "wrong")
                      ELSE Number(f.wrongAnswers),
     negativeMarks |-> negativeMarks(f),
     obtainedMarks |-> obtainedMarks(f),
     grade |-> calculateGrade(f.examType, obtainedMarks(f), finalTotalMarks(f)),
     sections |-> IF f.examType = FULL_MOCK THEN f.sections ELSE <<>>]

\* exam?.id of a form that was opened without an exam
NoId == 0

\* the submit button of the form opened on the exam `id`, or on no exam: the
\* browser blocks an invalid form, handleSubmit shows an error or calls
\* onSave, which is handleSaveExam
SubmitForm(id, f) ==
    IF ~NativeValid(f)
    THEN /\ formError' = ConstraintError
         /\ UNCHANGED <<exams, chapterProgress, undoState, timer, nextId, now, form>>
    ELSE IF SubmitError(f) # NoError
    THEN /\ formError' = SubmitError(f)
         /\ UNCHANGED <<exams, chapterProgress, undoState, timer, nextId, now, form>>
    ELSE IF id = NoId
    THEN handleSaveExamNew(SavedExam(f))
    ELSE handleSaveExamEdit(id, SavedExam(f))

\* an ExamSection, without its name
Section(c, w, t) == [correct |-> c, wrong |-> w, total |-> t]

\* the sections a form starts with when its exam has none
DefaultSections ==
    <<Section(0, 0, 25), Section(0, 0, 25), Section(0, 0, 25), Section(0, 0, 25)>>

\* a form of a chapter exam with its three number fields
FlatForm(total, correct, wrong) ==
    [subject |-> "Physics", examType |-> "V.QB", status |-> "COMPLETED",
     topics |-> {"Vector"}, totalMarks |-> total, correctAnswers |-> correct,
     wrongAnswers |-> wrong, sections |-> DefaultSections]

\* a form of a full mock test with its sections
MockForm(sections) ==
    [subject |-> "GST Full Mock Test", examType |-> FULL_MOCK, status |-> "COMPLETED",
     topics |-> {}, totalMarks |-> BLANK, correctAnswers |-> BLANK,
     wrongAnswers |-> BLANK, sections |-> sections]

\* the chapter-exam forms that are submitted: scores on and a quarter below
\* every threshold of the standard scale, negative scores down to and below
\* -25, a score above the total, a total of 0, and fields the browser refuses
FlatFormInputs ==
    {FlatForm(20, c, w) : c \in {10, 12, 14, 16, 18}, w \in {0, 1}}
    \cup {FlatForm(20, 0, 40), FlatForm(20, 0, 100), FlatForm(20, 0, 101),
          FlatForm(20, 21, 0), FlatForm(0, 0, 0), FlatForm(0, 0, 4),
          FlatForm(-5, 0, 40), FlatForm(20, BLANK, 0),
          [FlatForm(20, 10, 0) EXCEPT !.topics = {}]}

\* the full-mock forms that are submitted: four sections of 25 with scores on
\* and a quarter below every threshold of the mock scale, the lowest score
\* four sections allow, a field above its maximum, and the sections of an exam
\* that was stored with two sections or with a section of total 0
MockFormInputs ==
    {MockForm(<<Section(c, w, 25), Section(20, 0, 25), Section(20, 0, 25),
                Section(c4, 0, 25)>>) : c \in {0, 10, 20}, w \in {0, 1}, c4 \in {0, 20}}
    \cup {MockForm(<<Section(0, 25, 25), Section(0, 25, 25), Section(0, 25, 25),
                     Section(0, 25, 25)>>),
          MockForm(<<Section(26, 0, 25), Section(0, 0, 25), Section(0, 0, 25),
                     Section(0, 0, 25)>>),
          MockForm(<<Section(20, 4, 25), Section(18, 8, 25)>>),
          MockForm(<<Section(0, 0, 0)>>)}

FormInputs == FlatFormInputs \cup MockFormInputs

\* the fields of a form that was opened without an exam (lines 20-37)
InitialForm ==
    [subject |-> "", examType |-> "V.QB", status |-> "COMPLETED", topics |-> {},
     totalMarks |-> BLANK, correctAnswers |-> BLANK, wrongAnswers |-> BLANK,
     sections |-> DefaultSections]

Init ==
    /\ exams = <<>>
    /\ chapterProgress = <<>>
    /\ undoState = NoUndo
    /\ timer = ArmTimer(<<>>)
    /\ nextId = 1
    /\ now = 0
    /\ formError = NoError
    /\ form = InitialForm

\* the handlers called with any argument of their parameter types
Next ==
    \/ \E inp \in ToggleInputs : handleToggleTask(inp[1], inp[2], inp[3])
    \/ \E examData \in ExamInputs : nextId <= MaxExams /\ handleSaveExamNew(examData)
    \/ \E id \in ExamIds, examData \in ExamInputs : handleSaveExamEdit(id, examData)
    \/ \E id \in ExamIds : handleDeleteExam(id)
    \/ handleUndo
    \/ UndoExpire
    \/ TimerFire
    \/ Tick

Spec == Init /\ [][Next]_vars

\* the handlers called the way the rendered components call them: a task is
\* toggled by a click on an enabled button, an exam is edited or deleted from
\* its card
NextUI ==
    \/ \E inp \in ToggleInputs : ClickTask(inp[1], inp[2], inp[3])
    \/ \E examData \in ExamInputs : nextId <= MaxExams /\ handleSaveExamNew(examData)
    \/ \E id \in ExamIds, examData \in ExamInputs :
          HasExam(exams, id) /\ handleSaveExamEdit(id, examData)
    \/ \E id \in ExamIds : HasExam(exams, id) /\ handleDeleteExam(id)
    \/ handleUndo
    \/ UndoExpire
    \/ TimerFire
    \/ Tick

SpecUI == Init /\ [][NextUI]_vars

\* the exam form filled in with one of the forms of FormInputs; in one run the
\* form is filled in the same way every time it is submitted
InitForm ==
    /\ exams = <<>>
    /\ chapterProgress = <<>>
    /\ undoState = NoUndo
    /\ timer = ArmTimer(<<>>)
    /\ nextId = 1
    /\ now = 0
    /\ formError = NoError
    /\ form \in FormInputs

\* the exam log driven through the exam form: exams are added and edited by
\* submitting the form, and deleted from their card
NextForm ==
    \/ (Accepted(form) => nextId <= MaxExams) /\ SubmitForm(NoId, form)
    \/ \E id \in ExamIds : HasExam(exams, id) /\ SubmitForm(id, form)
    \/ \E id \in ExamIds : HasExam(exams, id) /\ handleDeleteExam(id)
    \/ handleUndo
    \/ UndoExpire
    \/ TimerFire

SpecForm == InitForm /\ [][NextForm]_vars

LogIds == 1..MaxLogExams

\* the handlers of the exam log alone, called with any exam and any id
NextLog ==
    \/ \E examData \in ExamInputs : nextId <= MaxLogExams /\ handleSaveExamNew(examData)
    \/ \E id \in LogIds, examData \in ExamInputs : handleSaveExamEdit(id, examData)
    \/ \E id \in LogIds : handleDeleteExam(id)
    \/ handleUndo
    \/ UndoExpire
    \/ TimerFire

SpecLog == Init /\ [][NextLog]_vars

(***************************************************************************)
(* The readiness statistics of GSTCountdown.                               *)
(***************************************************************************)
\* chapterExams of stats: the completed exams with a topic of the chapter's name
StatsChapterExams(p, ex) ==
    {i \in DOMAIN ex : p.chapterName \in ex[i].topics /\ ex[i].status = "COMPLETED"}

\* isCompleted of stats, for one record of the progress list
StatsIsCompleted(p, ex) ==
    /\ p.isClassDone /\ p.isUniQBDone /\ p.isGSTQBDone
    /\ StatsChapterExams(p, ex) # {}

\* fullyCompleted of stats
fullyCompleted(progress, ex) ==
    Cardinality({i \in DOMAIN progress : StatsIsCompleted(progress[i], ex)})

\* the exams handleSaveExam is called with: those of ExamInputs, a cancelled
\* one, and a completed exam of another subject that lists a topic of the name
\* of a Physics chapter
AnyExamInputs ==
    ExamInputs \cup
    { [subject |-> "Physics", status |-> "CANCELLED", topics |-> {"Vector"}],
      [subject |-> "Chemistry", status |-> "COMPLETED", topics |-> {"Vector"}] }

\* the three core tasks of one chapter
CoreToggleInputs == {<<"Physics", "Vector", task>> : task \in {"class", "uni", "gst"}}

\* the handlers that decide completion, called with any exam
NextAny ==
    \/ \E inp \in CoreToggleInputs : handleToggleTask(inp[1], inp[2], inp[3])
    \/ \E examData \in AnyExamInputs : nextId <= MaxExams /\ handleSaveExamNew(examData)
    \/ \E id \in ExamIds, examData \in AnyExamInputs :
          HasExam(exams, id) /\ handleSaveExamEdit(id, examData)
    \/ \E id \in ExamIds : HasExam(exams, id) /\ handleDeleteExam(id)
    \/ handleUndo
    \/ UndoExpire
    \/ TimerFire

SpecAny == Init /\ [][NextAny]_vars

(***************************************************************************)
(* The derived status of a chapter: getStatus of CurriculumTracker.        *)
(***************************************************************************)
\* an exam record carries the optional field
Has(e, field) == field \in DOMAIN e

\* exam.obtainedMarks !== undefined && exam.totalMarks &&
\* (exam.obtainedMarks / exam.totalMarks) >= 0.8, with obtainedMarks in quarters
HighScored(e) ==
    /\ Has(e, "obtainedMarks") /\ Has(e, "totalMarks")
    /\ e.totalMarks # 0
    /\ IF e.totalMarks > 0 THEN 5 * e.obtainedMarks >= 4 * Whole(e.totalMarks)
       ELSE 5 * e.obtainedMarks <= 4 * Whole(e.totalMarks)

\* a score test that leaves exactly 80% out
hasHighScoredExam_Above(ex, subject, chapterName) ==
    \E i \in getChapterExams(ex, subject, chapterName) :
        /\ HighScored(ex[i])
        /\ 5 * ex[i].obtainedMarks # 4 * Whole(ex[i].totalMarks)

\* hasHighScoredExam of getStatus
hasHighScoredExam(ex, subject, chapterName) ==
    \E i \in getChapterExams(ex, subject, chapterName) : HighScored(ex[i])

\* getStatus(...).isMastered
isMastered(progress, ex, subject, chapterName) ==
    LET p == getChapterProgress(progress, subject, chapterName)
    IN  /\ p.firstRevisionAt # UNDEFINED
        /\ p.secondRevisionAt # UNDEFINED
        /\ hasHighScoredExam(ex, subject, chapterName)

\* date-fns differenceInDays on day numbers
differenceInDays(dateLeft, dateRight) == dateLeft - dateRight

\* a status that is already BEHIND on the day the revision is due
DueStatus_BehindOnDueDay(dueDate, t) ==
    IF differenceInDays(dueDate, t) <= 0 THEN "BEHIND" ELSE "ON_TRACK"

\* the status of a revision that is due on dueDate
DueStatus(dueDate, t) ==
    IF differenceInDays(dueDate, t) < 0 THEN "BEHIND" ELSE "ON_TRACK"

\* getStatus(...).statusType
statusType(progress, ex, subject, chapterName, t) ==
    LET p == getChapterProgress(progress, subject, chapterName)
    IN  IF isMastered(progress, ex, subject, chapterName) THEN "MASTERED"
        ELSE IF StatusIsCompleted(progress, ex, subject, chapterName)
        THEN IF p.secondRevisionAt # UNDEFINED THEN "COMPLETED"
             ELSE IF p.firstRevisionAt # UNDEFINED
             THEN DueStatus(addDays(p.firstRevisionAt, 7), t)
             ELSE IF p.completedAt # UNDEFINED
             THEN DueStatus(addDays(p.completedAt, 3), t)
             ELSE "COMPLETED"
        ELSE IF p.isClassDone THEN "ON_TRACK"
        ELSE "IDLE"

(***************************************************************************)
(* The due revisions listed by RevisionReminders.                          *)
(***************************************************************************)
\* the two kinds of reminder
ReminderKinds == {"1st Revision", "2nd Revision"}

\* the scheduled date a reminder of the kind reads
ScheduledAt(p, kind) ==
    IF kind = "1st Revision" THEN p.scheduledFirstRevisionAt
    ELSE p.scheduledSecondRevisionAt

\* the revision mark a reminder of the kind reads
RevisedAt(p, kind) ==
    IF kind = "1st Revision" THEN p.firstRevisionAt ELSE p.secondRevisionAt

\* date-fns isSameDay on day numbers
isSameDay(dateLeft, dateRight) == dateLeft = dateRight

\* an item is pushed for the record and the kind
HasReminder(p, kind, today) ==
    /\ ScheduledAt(p, kind) # UNDEFINED
    /\ RevisedAt(p, kind) = UNDEFINED
    /\ (isSameDay(ScheduledAt(p, kind), today) \/ ScheduledAt(p, kind) < today)

\* isOverdue of the item
isOverdue(p, kind, today) ==
    ScheduledAt(p, kind) < today /\ ~isSameDay(ScheduledAt(p, kind), today)

(***************************************************************************)
(* The percentages of GSTCountdown.  A percentage is kept as the fraction  *)
(* num / den, which is exact.                                              *)
(***************************************************************************)
\* Object.values(NCTB_CURRICULUM).reduce((acc, curr) => acc + curr.length, 0)
RECURSIVE SumLengths(_)
SumLengths(subjects) ==
    IF subjects = {} THEN 0
    ELSE LET s == CHOOSE s \in subjects : TRUE
         IN  Len(NCTB_CURRICULUM[s]) + SumLengths(subjects \ {s})

totalChapters == SumLengths(DOMAIN NCTB_CURRICULUM)

\* hasHighScoredExam of stats
StatsHighScored(p, ex) == \E i \in StatsChapterExams(p, ex) : HighScored(ex[i])

\* the number of conditions of the set that hold
Count(conditions) == Cardinality({c \in DOMAIN conditions : conditions[c]})

\* what one record adds to completionTasks
RecordCompletionTasks(p, ex) ==
    Count(<<p.isClassDone, p.isUniQBDone, p.isGSTQBDone, StatsChapterExams(p, ex) # {}>>)

\* what one record adds to masteryTasks
RecordMasteryTasks(p, ex) ==
    Count(<<p.firstRevisionAt # UNDEFINED, p.secondRevisionAt # UNDEFINED,
            StatsHighScored(p, ex)>>)

\* completionTasks after progress.forEach
RECURSIVE completionTasks(_, _)
completionTasks(progress, ex) ==
    IF progress = <<>> THEN 0
    ELSE RecordCompletionTasks(Head(progress), ex) + completionTasks(Tail(progress), ex)

\* masteryTasks after progress.forEach
RECURSIVE masteryTasks(_, _)
masteryTasks(progress, ex) ==
    IF progress = <<>> THEN 0
    ELSE RecordMasteryTasks(Head(progress), ex) + masteryTasks(Tail(progress), ex)

\* (tasks / (totalChapters * perChapter)) * 100
Percentage(tasks, perChapter) == [num |-> 100 * tasks, den |-> totalChapters * perChapter]

\* a completion percentage that takes the chapter, not the task, as its unit
completionPct_PerChapter(progress, ex) ==
    Percentage(completionTasks(progress, ex), 1)

completionPct(progress, ex) == Percentage(completionTasks(progress, ex), 4)

masteryPct(progress, ex) == Percentage(masteryTasks(progress, ex), 3)

combinedPct(progress, ex) ==
    Percentage(completionTasks(progress, ex) + masteryTasks(progress, ex), 7)

(***************************************************************************)
(* The tracker and the exam form together.                                 *)
(***************************************************************************)
\* the forms of a chapter exam on Vector that are submitted: 85 of 100,
\* exactly 80 of 100, a quarter of a mark below 80, and a total of 0
TrackForms ==
    {FlatForm(100, 85, 0), FlatForm(100, 80, 0), FlatForm(100, 80, 1), FlatForm(0, 0, 0)}

InitTrack ==
    /\ exams = <<>>
    /\ chapterProgress = <<>>
    /\ undoState = NoUndo
    /\ timer = ArmTimer(<<>>)
    /\ nextId = 1
    /\ now = 0
    /\ formError = NoError
    /\ form \in TrackForms

\* tasks are toggled by clicks on enabled buttons, exams are added by
\* submitting the form and deleted from their card
NextTrack ==
    \/ \E inp \in ToggleInputs : ClickTask(inp[1], inp[2], inp[3])
    \/ (Accepted(form) => nextId <= MaxExams) /\ SubmitForm(NoId, form)
    \/ \E id \in ExamIds : HasExam(exams, id) /\ handleDeleteExam(id)
    \/ handleUndo
    \/ UndoExpire
    \/ TimerFire

SpecTrack == InitTrack /\ [][NextTrack]_vars

(***************************************************************************)
(* The tracker over several days.                                          *)
(***************************************************************************)
\* one more day has passed
TickDay ==
    /\ now < MaxDay
    /\ now' = now + 1
    /\ UNCHANGED <<exams, chapterProgress, undoState, timer, nextId, formError, form>>

\* every task of one chapter
ChapterToggleInputs == {<<"Physics", "Vector", task>> : task \in Tasks}

\* an exam of 85 of 100 on Vector is filled in
InitDays ==
    /\ exams = <<>>
    /\ chapterProgress = <<>>
    /\ undoState = NoUndo
    /\ timer = ArmTimer(<<>>)
    /\ nextId = 1
    /\ now = 0
    /\ formError = NoError
    /\ form = FlatForm(100, 85, 0)

\* the tasks of a chapter are clicked and its exam is saved while the days pass
NextDays ==
    \/ \E inp \in ChapterToggleInputs : ClickTask(inp[1], inp[2], inp[3])
    \/ (Accepted(form) => nextId <= MaxExams) /\ SubmitForm(NoId, form)
    \/ TimerFire
    \/ TickDay

SpecDays == InitDays /\ [][NextDays]_vars

(***************************************************************************)
(* The tracker over the whole catalog.                                     *)
(***************************************************************************)
\* every task of every chapter of the catalog
CatalogToggleInputs ==
    UNION {{<<s, NCTB_CURRICULUM[s][i], task>> : i \in DOMAIN NCTB_CURRICULUM[s], task \in Tasks}
              : s \in SUBJECTS}

\* an exam of 85 of 100 on every chapter of Physics is filled in
InitCatalog ==
    /\ exams = <<>>
    /\ chapterProgress = <<>>
    /\ undoState = NoUndo
    /\ timer = ArmTimer(<<>>)
    /\ nextId = 1
    /\ now = 0
    /\ formError = NoError
    /\ form = [FlatForm(100, 85, 0) EXCEPT !.topics = {"Vector", "Waves"}]

\* the tasks of every chapter are clicked and the exam is saved
NextCatalog ==
    \/ \E inp \in CatalogToggleInputs : ClickTask(inp[1], inp[2], inp[3])
    \/ (Accepted(form) => nextId <= MaxExams) /\ SubmitForm(NoId, form)
    \/ TimerFire

SpecCatalog == InitCatalog /\ [][NextCatalog]_vars

(***************************************************************************)
(* Properties.                                                             *)
(***************************************************************************)
Records == {chapterProgress[i] : i \in DOMAIN chapterProgress}

CoreTasks == {"class", "uni", "gst"}

\* the flag of a record that a core task toggles
CoreFlag(p, task) ==
    CASE task = "class" -> p.isClassDone
      [] task = "uni" -> p.isUniQBDone
      [] task = "gst" -> p.isGSTQBDone

\* C1: whenever no scheduler pass is pending, every record whose three core
\* flags are true and whose chapter is covered by a Completed exam of its
\* subject has completedAt set and scheduledFirstRevisionAt = completedAt + 3 days.
C1_CompletedIsScheduled ==
    ~timer.armed =>
        \A p \in Records :
            isCompleted(p, exams) =>
                /\ p.completedAt # UNDEFINED
                /\ p.scheduledFirstRevisionAt = addDays(p.completedAt, 3)

\* C2: when a core task of a record with completedAt and
\* scheduledFirstRevisionAt set is toggled off, so that the chapter is no longer
\* completed, and no scheduler pass is pending after the toggle, the record has
\* completedAt, scheduledFirstRevisionAt and scheduledSecondRevisionAt absent.
C2_UntoggleClearsSchedule ==
    [][\A inp \in ToggleInputs :
          ( /\ inp[3] \in CoreTasks
            /\ ClickTask(inp[1], inp[2], inp[3])
            /\ HasRecord(chapterProgress, inp[1], inp[2])
            /\ LET p == FindRecord(chapterProgress, inp[1], inp[2])
               IN  /\ CoreFlag(p, inp[3])
                   /\ p.completedAt # UNDEFINED
                   /\ p.scheduledFirstRevisionAt # UNDEFINED
            /\ ~isCompleted(FindRecord(chapterProgress', inp[1], inp[2]), exams')
            /\ ~timer'.armed )
          => LET q == FindRecord(chapterProgress', inp[1], inp[2])
             IN  /\ q.completedAt = UNDEFINED
                 /\ q.scheduledFirstRevisionAt = UNDEFINED
                 /\ q.scheduledSecondRevisionAt = UNDEFINED]_vars

\* C3: every record with secondRevisionAt set has firstRevisionAt set.
C3_SecondRevisionNeedsFirst ==
    \A p \in Records : p.secondRevisionAt # UNDEFINED => p.firstRevisionAt # UNDEFINED

\* C4: every record with scheduledSecondRevisionAt set has firstRevisionAt set.
C4_ScheduledSecondNeedsFirst ==
    \A p \in Records :
        p.scheduledSecondRevisionAt # UNDEFINED => p.firstRevisionAt # UNDEFINED

\* C5: a call handleToggleTask(subject, chapter, rev1) that would set
\* firstRevisionAt (it is absent, or the chapter has no record) while the
\* chapter is not completed leaves the chapter progress list unchanged.
C5_Rev1RejectedUnlessCompleted ==
    [][\A inp \in ToggleInputs :
          ( /\ inp[3] = "rev1"
            /\ handleToggleTask(inp[1], inp[2], inp[3])
            /\ LET p == getChapterProgress(chapterProgress, inp[1], inp[2])
               IN  p.firstRevisionAt = UNDEFINED /\ ~isCompleted(p, exams) )
          => chapterProgress' = chapterProgress]_vars

\* C6: a call handleToggleTask(subject, chapter, rev2) that would set
\* secondRevisionAt while firstRevisionAt is absent leaves the chapter
\* progress list unchanged.
C6_Rev2RejectedWithoutRev1 ==
    [][\A inp \in ToggleInputs :
          ( /\ inp[3] = "rev2"
            /\ handleToggleTask(inp[1], inp[2], inp[3])
            /\ LET p == getChapterProgress(chapterProgress, inp[1], inp[2])
               IN  p.secondRevisionAt = UNDEFINED /\ p.firstRevisionAt = UNDEFINED )
          => chapterProgress' = chapterProgress]_vars

\* C7: right after revision1 is toggled off on a record that has
\* secondRevisionAt or scheduledSecondRevisionAt set, the record has none of
\* firstRevisionAt, secondRevisionAt and scheduledSecondRevisionAt set.
C7_Rev1OffClearsRev2 ==
    [][\A inp \in ToggleInputs :
          ( /\ inp[3] = "rev1"
            /\ ClickTask(inp[1], inp[2], inp[3])
            /\ LET p == getChapterProgress(chapterProgress, inp[1], inp[2])
               IN  /\ p.firstRevisionAt # UNDEFINED
                   /\ \/ p.secondRevisionAt # UNDEFINED
                      \/ p.scheduledSecondRevisionAt # UNDEFINED )
          => LET q == FindRecord(chapterProgress', inp[1], inp[2])
             IN  /\ q.firstRevisionAt = UNDEFINED
                 /\ q.secondRevisionAt = UNDEFINED
                 /\ q.scheduledSecondRevisionAt = UNDEFINED]_vars

\* C8: the scheduler pass is idempotent: a second pass over the result of a
\* pass, with the same exam log and clock, returns the same list and reports
\* no change.
C8_PassIdempotent ==
    LET first == RevisionPass(chapterProgress, exams, now)
        second == RevisionPass(first.result, exams, now)
    IN  second.result = first.result /\ ~second.changed

\* a pass is pending that will change the list
C8_Witness ==
    /\ timer.armed
    /\ Len(chapterProgress) = 2
    /\ RevisionPass(chapterProgress, timer.exams, now).changed

\* C9: the scheduler pass that is pending keeps the number and order of the
\* records, and of each record the subject, the chapter name, the three core
\* flags, firstRevisionAt and secondRevisionAt.
C9_PassFrame ==
    timer.armed =>
        LET after == RevisionPass(chapterProgress, timer.exams, now).result
        IN  /\ Len(after) = Len(chapterProgress)
            /\ \A i \in DOMAIN chapterProgress :
                  LET p == chapterProgress[i]
                      q == after[i]
                  IN  /\ q.subject = p.subject
                      /\ q.chapterName = p.chapterName
                      /\ q.isClassDone = p.isClassDone
                      /\ q.isUniQBDone = p.isUniQBDone
                      /\ q.isGSTQBDone = p.isGSTQBDone
                      /\ q.firstRevisionAt = p.firstRevisionAt
                      /\ q.secondRevisionAt = p.secondRevisionAt

\* a pass is pending over two records, and will clear the dates of the first
\* of them, on which both revisions are marked
C9_Witness ==
    /\ timer.armed
    /\ Len(chapterProgress) = 2
    /\ FirstBranch(chapterProgress[1], timer.exams) = "clear"
    /\ chapterProgress[1].firstRevisionAt # UNDEFINED
    /\ chapterProgress[1].secondRevisionAt # UNDEFINED

\* the records the pass un-completes: completedAt set, chapter not completed
Uncompleted(p) == p.completedAt # UNDEFINED /\ ~isCompleted(p, exams)

\* C10 as stated: for every record with completedAt set whose chapter is not
\* completed, the record a pass produces has completedAt,
\* scheduledFirstRevisionAt and scheduledSecondRevisionAt absent.
C10_PassClearsAllThree ==
    \A i \in DOMAIN chapterProgress :
        Uncompleted(chapterProgress[i]) =>
            LET q == RevisionPass(chapterProgress, exams, now).result[i]
            IN  /\ q.completedAt = UNDEFINED
                /\ q.scheduledFirstRevisionAt = UNDEFINED
                /\ q.scheduledSecondRevisionAt = UNDEFINED

\* C10 as amended: for every such record the pass produces a record with
\* completedAt and scheduledFirstRevisionAt absent, and with
\* scheduledSecondRevisionAt absent if firstRevisionAt is absent and equal to
\* firstRevisionAt + 7 days if it is set.
C10_PassClearsCompletion ==
    \A i \in DOMAIN chapterProgress :
        Uncompleted(chapterProgress[i]) =>
            LET p == chapterProgress[i]
                q == RevisionPass(chapterProgress, exams, now).result[i]
            IN  /\ q.completedAt = UNDEFINED
                /\ q.scheduledFirstRevisionAt = UNDEFINED
                /\ q.scheduledSecondRevisionAt =
                     IF p.firstRevisionAt = UNDEFINED
                     THEN UNDEFINED
                     ELSE addDays(p.firstRevisionAt, 7)

\* a pass is pending over a record it un-completes, whose first revision is
\* marked and whose second revision was scheduled on another day's mark
C10_Witness ==
    /\ timer.armed
    /\ \E p \in Records :
          /\ Uncompleted(p)
          /\ p.firstRevisionAt # UNDEFINED
          /\ p.scheduledSecondRevisionAt # UNDEFINED
          /\ p.scheduledSecondRevisionAt # addDays(p.firstRevisionAt, 7)

\* C11: whenever no scheduler pass is pending, every record with both
\* firstRevisionAt and scheduledSecondRevisionAt set has
\* scheduledSecondRevisionAt = firstRevisionAt + 7 days, also after revision 1
\* was toggled off and on again at a later time.
C11_SecondIsFirstPlusSeven ==
    ~timer.armed =>
        \A p \in Records :
            (p.firstRevisionAt # UNDEFINED /\ p.scheduledSecondRevisionAt # UNDEFINED)
                => p.scheduledSecondRevisionAt = addDays(p.firstRevisionAt, 7)

\* C12: a toggle on an existing record is followed by a scheduler pass: when a
\* click turns revision 1 on for a completed chapter that has a record, then
\* after the click a pass is pending or scheduledSecondRevisionAt is set, so
\* that it becomes set without any further exam or progress mutation.
C12_ToggleIsFollowedByPass ==
    [][\A inp \in ToggleInputs :
          ( /\ inp[3] = "rev1"
            /\ ClickTask(inp[1], inp[2], inp[3])
            /\ HasRecord(chapterProgress, inp[1], inp[2])
            /\ FindRecord(chapterProgress, inp[1], inp[2]).firstRevisionAt = UNDEFINED
            /\ isCompleted(FindRecord(chapterProgress, inp[1], inp[2]), exams) )
          => \/ timer'.armed
             \/ FindRecord(chapterProgress', inp[1], inp[2]).scheduledSecondRevisionAt
                    # UNDEFINED]_vars

Exams == {exams[i] : i \in DOMAIN exams}

\* C13: every stored exam has obtainedMarks = correct - wrong/4; a full mock
\* has the sum of that over its sections, and totalMarks the sum of the section
\* totals: the sections {20, 4, 25} and {18, 8, 25} give 35 and 50.
C13_ObtainedMarks ==
    \A e \in Exams :
        IF e.examType = FULL_MOCK
        THEN /\ e.obtainedMarks =
                    Whole(SumField(e.sections, "correct")) - SumField(e.sections, "wrong")
             /\ e.totalMarks = SumField(e.sections, "total")
             /\ e.sections = <<Section(20, 4, 25), Section(18, 8, 25)>>
                    => (e.obtainedMarks = Whole(35) /\ e.totalMarks = 50)
        ELSE e.obtainedMarks = Whole(e.correctAnswers) - e.wrongAnswers

C13_Witness ==
    \E e \in Exams :
        /\ e.sections = <<Section(20, 4, 25), Section(18, 8, 25)>>
        /\ e.obtainedMarks = Whole(35)

\* C14: every stored exam has negativeMarks = wrong/4, exact to the quarter,
\* and obtainedMarks = correctAnswers - negativeMarks (for a full mock with the
\* sums over its sections).
C14_NegativeMarks ==
    \A e \in Exams :
        /\ Quarter * e.negativeMarks = Whole(e.wrongAnswers)
        /\ e.obtainedMarks = Whole(e.correctAnswers) - e.negativeMarks

C14_Witness ==
    \E e \in Exams : e.wrongAnswers % Quarter # 0 /\ e.negativeMarks = e.wrongAnswers

\* the percentage of a stored exam is at least thr
ScoredAtLeast(e, thr) == 100 * e.obtainedMarks >= thr * Whole(e.totalMarks)

\* C15: for totalMarks > 0 the grade follows the percentage with inclusive lower
\* thresholds: 90 A+, 80 A, 70 A-, 60 B, 50 C, else F on the standard scale;
\* 80 Elite, 70 Superior, 60 Excellent, 50 Good, 40 Average, else Needs Work
\* for a full mock.
C15_GradeThresholds ==
    \A e \in Exams :
        e.totalMarks > 0 =>
            IF e.examType = FULL_MOCK
            THEN /\ (e.grade = "Elite") = ScoredAtLeast(e, 80)
                 /\ (e.grade = "Superior") = (ScoredAtLeast(e, 70) /\ ~ScoredAtLeast(e, 80))
                 /\ (e.grade = "Excellent") = (ScoredAtLeast(e, 60) /\ ~ScoredAtLeast(e, 70))
                 /\ (e.grade = "Good") = (ScoredAtLeast(e, 50) /\ ~ScoredAtLeast(e, 60))
                 /\ (e.grade = "Average") = (ScoredAtLeast(e, 40) /\ ~ScoredAtLeast(e, 50))
                 /\ (e.grade = "Needs Work") = ~ScoredAtLeast(e, 40)
            ELSE /\ (e.grade = "A+") = ScoredAtLeast(e, 90)
                 /\ (e.grade = "A") = (ScoredAtLeast(e, 80) /\ ~ScoredAtLeast(e, 90))
                 /\ (e.grade = "A-") = (ScoredAtLeast(e, 70) /\ ~ScoredAtLeast(e, 80))
                 /\ (e.grade = "B") = (ScoredAtLeast(e, 60) /\ ~ScoredAtLeast(e, 70))
                 /\ (e.grade = "C") = (ScoredAtLeast(e, 50) /\ ~ScoredAtLeast(e, 60))
                 /\ (e.grade = "F") = ~ScoredAtLeast(e, 50)

\* a stored exam whose score is exactly 90 percent of its total
C15_Witness ==
    \E e \in Exams :
        /\ e.totalMarks > 0
        /\ 100 * e.obtainedMarks = 90 * Whole(e.totalMarks)
        /\ e.grade = "A+"

WithinBounds(total, obtained) ==
    /\ total >= 0
    /\ obtained <= Whole(total)
    /\ obtained >= Whole(-25)

\* a form that is filled in: a subject, a chapter if the exam is a chapter exam,
\* every number field holds a count that is not negative and, in a section,
\* not above the total of the section
FilledIn(f) ==
    /\ f.subject # ""
    /\ isChapterExam(f.examType) => f.topics # {}
    /\ IF f.examType = FULL_MOCK
       THEN \A i \in DOMAIN f.sections :
               /\ f.sections[i].correct \in 0..f.sections[i].total
               /\ f.sections[i].wrong \in 0..f.sections[i].total
       ELSE /\ f.totalMarks # BLANK
            /\ f.correctAnswers # BLANK /\ f.correctAnswers >= 0
            /\ f.wrongAnswers # BLANK /\ f.wrongAnswers >= 0

IdsOf(ex) == {ex[i].id : i \in DOMAIN ex}

\* C18: after any sequence of recordExam, updateExam, deleteExam and undo the
\* ids of the exam log are pairwise distinct; updateExam keeps the id of the
\* record it edits and changes no other record; recordExam gives the new record
\* an id that no record has or had (the ids handed out are those below nextId).
C18_IdsDistinct ==
    [][/\ \A i, j \in DOMAIN exams' : i # j => exams'[i].id # exams'[j].id
       /\ \A id \in IdsOf(exams') \cup IdsOf(undoState'.exams) : id < nextId'
       /\ \A id \in LogIds, examData \in ExamInputs :
             handleSaveExamEdit(id, examData)
             => /\ Len(exams') = Len(exams)
                /\ \A i \in DOMAIN exams :
                      /\ exams'[i].id = exams[i].id
                      /\ exams[i].id # id => exams'[i] = exams[i]
       /\ \A examData \in ExamInputs :
             handleSaveExamNew(examData)
             => /\ exams'[Len(exams')].id >= nextId
                /\ exams'[Len(exams')].id \notin IdsOf(exams) \cup IdsOf(undoState.exams)
                /\ SubSeq(exams', 1, Len(exams)) = exams]_vars

\* two records in the log that differ in their id and in their content
C18_Witness ==
    /\ Len(exams) = 2
    /\ exams[1].id # exams[2].id
    /\ exams[1].status # exams[2].status

\* C19: updateExam and deleteExam called with an id that no record of the exam
\* log has report an error and leave the exam log unchanged.
C19_MissingIdReported ==
    [][\A id \in LogIds :
          ~HasExam(exams, id) =>
              /\ (\E examData \in ExamInputs : handleSaveExamEdit(id, examData))
                    => (exams' = exams /\ formError' # NoError)
              /\ handleDeleteExam(id)
                    => (exams' = exams /\ formError' # NoError)]_vars

Chapters ==
    UNION {{<<s, NCTB_CURRICULUM[s][i]>> : i \in DOMAIN NCTB_CURRICULUM[s]} : s \in SUBJECTS}

\* some exam of the log covers the chapter with obtainedMarks / totalMarks >= 0.8
CoveredAtEightyPercent(chapterName) ==
    \E e \in Exams :
        /\ chapterName \in e.topics
        /\ e.totalMarks > 0
        /\ 5 * e.obtainedMarks >= 4 * Whole(e.totalMarks)

StatusOf(ch) == statusType(chapterProgress, exams, ch[1], ch[2], now)

\* a scheduled revision date of the record has passed and the revision it
\* schedules is not done
RevisionPastDue(p) ==
    \E kind \in ReminderKinds :
        /\ ScheduledAt(p, kind) # UNDEFINED
        /\ ScheduledAt(p, kind) < now
        /\ RevisedAt(p, kind) = UNDEFINED

\* a revision of the record is scheduled in the future
RevisionAhead(p) ==
    \E kind \in ReminderKinds : ScheduledAt(p, kind) # UNDEFINED /\ ScheduledAt(p, kind) > now

RevisionPending(p) ==
    /\ p.secondRevisionAt = UNDEFINED
    /\ (p.firstRevisionAt # UNDEFINED \/ p.completedAt # UNDEFINED)

\* the day the pending revision is due: seven days after the first revision,
\* or three days after the completion when no first revision is recorded
PendingDue(p) ==
    IF p.firstRevisionAt # UNDEFINED THEN addDays(p.firstRevisionAt, 7)
    ELSE addDays(p.completedAt, 3)

C23_FiveDaysLateIsBehind ==
    \A p \in Records :
        ( /\ p.scheduledFirstRevisionAt # UNDEFINED
          /\ addDays(p.scheduledFirstRevisionAt, 5) = now
          /\ p.firstRevisionAt = UNDEFINED )
        => StatusOf(<<p.subject, p.chapterName>>) = "BEHIND"

\* some Completed exam of the log covers the chapter
hasAnyCompletedExam(chapterName) ==
    \E e \in Exams : e.status = "COMPLETED" /\ chapterName \in e.topics

\* some Completed exam of the log covers the chapter with 80% or more
CompletedAtEightyPercent(chapterName) ==
    \E e \in Exams :
        /\ e.status = "COMPLETED" /\ chapterName \in e.topics
        /\ e.totalMarks > 0
        /\ 5 * e.obtainedMarks >= 4 * Whole(e.totalMarks)

\* the four completion flags of a chapter of the catalog, a chapter without a
\* record having its three task flags false
CompletionFlags(ch) ==
    LET p == getChapterProgress(chapterProgress, ch[1], ch[2])
    IN  <<p.isClassDone, p.isUniQBDone, p.isGSTQBDone, hasAnyCompletedExam(ch[2])>>

\* the three mastery flags of a chapter of the catalog
MasteryFlags(ch) ==
    LET p == getChapterProgress(chapterProgress, ch[1], ch[2])
    IN  <<p.firstRevisionAt # UNDEFINED, p.secondRevisionAt # UNDEFINED,
          CompletedAtEightyPercent(ch[2])>>

\* the number of completion flags that are true, over every catalog chapter
CatalogCompletionCount ==
    Cardinality({x \in Chapters \X (1..4) : CompletionFlags(x[1])[x[2]]})

\* the number of mastery flags that are true, over every catalog chapter
CatalogMasteryCount ==
    Cardinality({x \in Chapters \X (1..3) : MasteryFlags(x[1])[x[2]]})

\* C24: the three percentages equal the roll-up over all catalog chapters:
\* completionPct is the number of true completion flags over chapterCount * 4,
\* masteryPct the number of true mastery flags over chapterCount * 3, and
\* combinedPct both numbers added over chapterCount * 7, times 100; a catalog
\* chapter with a Completed exam and no progress record contributes its exam flag.
C24_RollUpOverCatalog ==
    LET chapterCount == Cardinality(Chapters)
    IN  /\ completionPct(chapterProgress, exams).num * (chapterCount * 4)
              = 100 * CatalogCompletionCount * completionPct(chapterProgress, exams).den
        /\ masteryPct(chapterProgress, exams).num * (chapterCount * 3)
              = 100 * CatalogMasteryCount * masteryPct(chapterProgress, exams).den
        /\ combinedPct(chapterProgress, exams).num * (chapterCount * 7)
              = 100 * (CatalogCompletionCount + CatalogMasteryCount)
                    * combinedPct(chapterProgress, exams).den

\* a percentage lies in the closed range from 0 to 100
InRange(pct) == pct.den > 0 /\ 0 <= pct.num /\ pct.num <= 100 * pct.den

\* C25: in every reachable state completionPct, masteryPct and combinedPct
\* each lie in the closed range [0, 100].
C25_PercentagesInRange ==
    /\ InRange(completionPct(chapterProgress, exams))
    /\ InRange(masteryPct(chapterProgress, exams))
    /\ InRange(combinedPct(chapterProgress, exams))

\* every chapter of the catalog is done and mastered: all three are 100
C25_Witness ==
    /\ Len(chapterProgress) = totalChapters
    /\ completionPct(chapterProgress, exams).num = 100 * completionPct(chapterProgress, exams).den
    /\ masteryPct(chapterProgress, exams).num = 100 * masteryPct(chapterProgress, exams).den
    /\ combinedPct(chapterProgress, exams).num = 100 * combinedPct(chapterProgress, exams).den

\* the chapters that have a record in the list
Keys(progress) == {<<progress[i].subject, progress[i].chapterName>> : i \in DOMAIN progress}

\* no two records of the list are of the same chapter
OnePerChapter(progress) == Cardinality(Keys(progress)) = Len(progress)

\* C26: there is at most one progress record per (subject, chapterName); the
\* list starts empty and a record appears only in a step of handleToggleTask
\* on its chapter; no other step, an exam mutation or a scheduler pass among
\* them, adds or removes a record.
C26_RecordsOnlyByToggle ==
    /\ chapterProgress = <<>>
    /\ [][ /\ OnePerChapter(chapterProgress')
           /\ ( Keys(chapterProgress') # Keys(chapterProgress)
                \/ Len(chapterProgress') # Len(chapterProgress) )
              => \E inp \in ToggleInputs :
                    /\ handleToggleTask(inp[1], inp[2], inp[3])
                    /\ Keys(chapterProgress') = Keys(chapterProgress) \cup {<<inp[1], inp[2]>>}
         ]_vars

\* two chapters have a record, one of them scheduled by a pass, and the exam
\* has been deleted since
C26_Witness ==
    /\ Len(chapterProgress) = 2
    /\ undoState.set
    /\ exams = <<>>
    /\ \E p \in Records : p.completedAt # UNDEFINED

\* the timeout that is pending closed over the exam log as it is now
PendingPassSeesLog == timer.armed => timer.exams = exams

\* C27: every mutation of the exam log leaves one timeout pending, which holds
\* the log as of that mutation, whatever was pending before; when the timeout
\* fires, the pass is computed from the current exam log and the current
\* chapter progress and no timeout is left pending, so no pass writes results
\* computed from a superseded exam log.
C27_OnePassOnLatestLog ==
    /\ PendingPassSeesLog
    /\ [][ /\ PendingPassSeesLog'
           /\ exams' # exams => timer' = [armed |-> TRUE, exams |-> exams']
           /\ (timer.armed /\ ~timer'.armed)
              => chapterProgress' = RevisionPass(chapterProgress, exams, now).result
         ]_vars

\* the exam that completed a chapter was saved and deleted again before the
\* pass of the save fired: one pass is pending, on the log after the delete
C27_Witness ==
    /\ timer.armed
    /\ undoState.set
    /\ timer.exams = exams
    /\ timer.exams # undoState.exams
    /\ \E p \in Records : isCompleted(p, undoState.exams) /\ p.completedAt = UNDEFINED

\* the records as the pass that is pending will leave them
AfterPendingPass == RevisionPass(chapterProgress, timer.exams, now).result

\* the pass that is pending brings every record in line with the exam log: a
\* completed chapter gets or keeps its completedAt, any other chapter is left
\* without completedAt and without scheduledFirstRevisionAt
PendingPassSettles ==
    timer.armed =>
        \A i \in DOMAIN chapterProgress :
            IF isCompleted(chapterProgress[i], exams)
            THEN AfterPendingPass[i].completedAt # UNDEFINED
            ELSE /\ AfterPendingPass[i].completedAt = UNDEFINED
                 /\ AfterPendingPass[i].scheduledFirstRevisionAt = UNDEFINED

\* C28: every change of the exam log (a delete, an edit, an undo, a save)
\* leaves a scheduler pass pending, and the pending pass clears completedAt and
\* scheduledFirstRevisionAt of every chapter that no Completed exam covers any
\* more and sets completedAt of every chapter that is completed again.
C28_ExamChangeIsFollowedByPass ==
    /\ [][exams' # exams => timer'.armed]_vars
    /\ []PendingPassSettles

\* the only Completed exam of a completed chapter has just been deleted: the
\* record still has completedAt and a pass is pending
C28_Witness ==
    /\ timer.armed
    /\ undoState.set
    /\ \E p \in Records :
          /\ p.completedAt # UNDEFINED
          /\ isCompleted(p, undoState.exams)
          /\ ~isCompleted(p, exams)

\* the due-revision list flags the revision of the kind as overdue
FlaggedOverdue(p, kind) == HasReminder(p, kind, now) /\ isOverdue(p, kind, now)

\* the revision the status of a record is decided on: the second one once the
\* first is done
JudgedKind(p) == IF p.firstRevisionAt # UNDEFINED THEN "2nd Revision" ELSE "1st Revision"

\* the status computation treats the revision of the kind as Behind
TreatedAsBehind(p, kind) ==
    StatusOf(<<p.subject, p.chapterName>>) = "BEHIND" /\ kind = JudgedKind(p)

\* C29: a pending revision is flagged overdue exactly when its scheduled date
\* lies before the current day, and the due-revision list flags a revision as
\* overdue if and only if the status computation treats that revision as Behind.
C29_OverdueUniform ==
    \A p \in Records : \A kind \in ReminderKinds :
        /\ (ScheduledAt(p, kind) # UNDEFINED /\ RevisedAt(p, kind) = UNDEFINED)
           => (FlaggedOverdue(p, kind) <=> ScheduledAt(p, kind) < now)
        /\ FlaggedOverdue(p, kind) <=> TreatedAsBehind(p, kind)

\* the field of a record that a core task toggles
CoreField(task) ==
    CASE task = "class" -> "isClassDone"
      [] task = "uni" -> "isUniQBDone"
      [] task = "gst" -> "isGSTQBDone"

\* the records of the list that are not of the chapter
OtherRecords(progress, subject, chapterName) ==
    {progress[i] : i \in {j \in DOMAIN progress : ~Matches(progress[j], subject, chapterName)}}

\* C30: a step of handleToggleTask(subject, chapter, task) leaves the exam log
\* and every record of another chapter as they are and leaves one record of
\* the chapter; for a core task that record differs from the one before (all
\* flags false and no dates when there was none) in the task's boolean alone,
\* which is flipped, and toggling the same task once more gives the boolean
\* its original value.
C30_ToggleFrame ==
    [][\A inp \in ToggleInputs :
          handleToggleTask(inp[1], inp[2], inp[3])
          => LET before == getChapterProgress(chapterProgress, inp[1], inp[2])
                 after == FindRecord(chapterProgress', inp[1], inp[2])
                 again == FindRecord(
                              ToggleTask(chapterProgress', inp[1], inp[2], inp[3], now'),
                              inp[1], inp[2])
             IN  /\ exams' = exams
                 /\ OtherRecords(chapterProgress', inp[1], inp[2])
                       = OtherRecords(chapterProgress, inp[1], inp[2])
                 /\ Len(chapterProgress') =
                       Cardinality(OtherRecords(chapterProgress, inp[1], inp[2])) + 1
                 /\ inp[3] \in CoreTasks
                    => /\ after[CoreField(inp[3])] = ~before[CoreField(inp[3])]
                       /\ \A f \in DOMAIN after \ {CoreField(inp[3])} : after[f] = before[f]
                       /\ again[CoreField(inp[3])] = before[CoreField(inp[3])]
      ]_vars

\* the class task of a chapter that had been completed and scheduled was
\* toggled off, next to the record of another chapter
C30_Witness ==
    /\ Len(chapterProgress) = 2
    /\ exams # <<>>
    /\ chapterProgress[1].chapterName = "Waves"
    /\ chapterProgress[2].chapterName = "Vector"
    /\ ~chapterProgress[2].isClassDone
    /\ chapterProgress[2].completedAt # UNDEFINED

====
